---- MODULE Spec2Model ----
(***************************************************************************)
(* FilterList (app/src/ui/lib/filter-list.tsx): a filter text box over a   *)
(* grouped list.  The component state {rows, selectedRow} is derived from  *)
(* the props by createStateUpdate; keyboard and list events move           *)
(* selectedRow and the focus; componentDidUpdate reconciles the selection  *)
(* with the caller.                                                        *)
(*                                                                         *)
(* Strings are sequences of one-character strings.  Row indices are        *)
(* 0-based as in the source; row i of a sequence rows is rows[i + 1].      *)
(***************************************************************************)
EXTENDS Integers, Sequences, FiniteSets

VARIABLES props, state, focus, event, calls, defaultPrevented

vars == <<props, state, focus, event, calls, defaultPrevented>>

(***************************************************************************)
(* Bounds of the model.                                                    *)
(***************************************************************************)
MaxGroups == 3
MaxSpaces == 1

(***************************************************************************)
(* Values.                                                                 *)
(***************************************************************************)
\* the id of "no item" (null in string | null)
NoId == "<null>"
\* selectedItem: T | null
NULL == [id |-> NoId, text |-> <<>>]
\* filterText?: string, when the prop is absent
Undefined == <<"<undefined>">>
\* the result of nextSelectableRow when no row is selectable
NoRow == -2

Whitespace == {" "}

toLowerCase(s) ==
  [i \in 1..Len(s) |->
     CASE s[i] = "A" -> "a"
       [] s[i] = "B" -> "b"
       [] s[i] = "C" -> "c"
       [] OTHER -> s[i]]

\* String.prototype.includes
includes(text, sub) ==
  \E k \in 0..(Len(text) - Len(sub)) : SubSeq(text, k + 1, k + Len(sub)) = sub

\* /\S/.test(s)
hasNonWhitespace(s) == \E i \in 1..Len(s) : s[i] \notin Whitespace

(***************************************************************************)
(* The items, groups and filter texts a caller passes.                     *)
(***************************************************************************)
x1 == [id |-> "1", text |-> <<"A", "b">>]
x2 == [id |-> "2", text |-> <<"c", " ", "B">>]
\* a second item with the id of x1
x3 == [id |-> "1", text |-> <<"C">>]

Items == {x1, x2, x3}

AllGroups ==
  << [identifier |-> "g0", items |-> <<>>],
     [identifier |-> "g1", items |-> <<x3>>],
     [identifier |-> "g2", items |-> <<x1, x2>>],
     [identifier |-> "g3", items |-> <<x2>>] >>

\* the first groups of AllGroups, at most MaxGroups of them
GroupLists ==
  { SubSeq(AllGroups, 1, n) : n \in { k \in 0..MaxGroups : k <= Len(AllGroups) } }

\* absent, the empty text, texts of spaces only, and one that matches "b"
FilterTexts ==
  {Undefined, <<"B">>} \cup { [i \in 1..n |-> " "] : n \in 0..MaxSpaces }

\* what a caller passes as selectedItem on its own (the callback of
\* onSelectionChanged may pass back any item of a row)
SelectedItems == {NULL, x1, x2}

Keys == {"ArrowDown", "ArrowUp", "Enter", "a"}

RowKeys == {"ArrowDown", "ArrowUp", "Enter"}

\* SelectionSource of the list (../lib/list)
ListSelectionSources == {[kind |-> "mouseclick"], [kind |-> "keyboard"]}

\* The props createStateUpdate, renderContent and canSelectRow read.  The
\* optional callbacks (onSelectionChanged, onItemClick, onFilterKeyDown) are
\* props too; no state depends on them, and whether each is supplied is
\* drawn with the event whose handler reads it.
Props ==
  [ groups : GroupLists,
    selectedItem : SelectedItems,
    filterText : FilterTexts,
    renderGroupHeader : BOOLEAN,
    renderNoItems : BOOLEAN,
    disabled : BOOLEAN ]

(***************************************************************************)
(* createStateUpdate                                                       *)
(***************************************************************************)
\* filterItems collecting the matching items in reverse order
filterItems_Reversed(items, filter) ==
  LET RECURSIVE go(_)
      go(i) ==
        IF i > Len(items) THEN <<>>
        ELSE IF includes(toLowerCase(items[i].text), filter)
             THEN go(i + 1) \o <<items[i]>>
             ELSE go(i + 1)
  IN go(1)

\* Array.prototype.filter with i => i.text.toLowerCase().includes(filter)
filterItems(items, filter) ==
  LET RECURSIVE go(_)
      go(i) ==
        IF i > Len(items) THEN <<>>
        ELSE IF includes(toLowerCase(items[i].text), filter)
             THEN <<items[i]>> \o go(i + 1)
             ELSE go(i + 1)
  IN go(1)

\* flattenGroup without `if (!items.length) continue`
flattenGroup_HeaderAlways(group, filter, renderGroupHeader) ==
  LET items == filterItems(group.items, filter)
  IN (IF renderGroupHeader
      THEN <<[kind |-> "group", identifier |-> group.identifier]>>
      ELSE <<>>)
     \o [i \in 1..Len(items) |-> [kind |-> "item", item |-> items[i]]]

\* flattenGroup pushing the group row after the item rows
flattenGroup_HeaderLast(group, filter, renderGroupHeader) ==
  LET items == filterItems(group.items, filter)
  IN IF Len(items) = 0 THEN <<>>
     ELSE [i \in 1..Len(items) |-> [kind |-> "item", item |-> items[i]]]
          \o (IF renderGroupHeader
              THEN <<[kind |-> "group", identifier |-> group.identifier]>>
              ELSE <<>>)

\* the rows pushed for one group
flattenGroup(group, filter, renderGroupHeader) ==
  LET items == filterItems(group.items, filter)
  IN IF Len(items) = 0 THEN <<>>
     ELSE (IF renderGroupHeader
           THEN <<[kind |-> "group", identifier |-> group.identifier]>>
           ELSE <<>>)
          \o [i \in 1..Len(items) |-> [kind |-> "item", item |-> items[i]]]

flattenGroups(groups, filter, renderGroupHeader) ==
  LET RECURSIVE go(_)
      go(g) ==
        IF g > Len(groups) THEN <<>>
        ELSE flattenGroup(groups[g], filter, renderGroupHeader) \o go(g + 1)
  IN go(1)

\* Array.prototype.findIndex; test[i] is the callback's result for rows[i]
findIndex(test) ==
  LET RECURSIVE go(_)
      go(i) ==
        IF i > Len(test) THEN -1
        ELSE IF test[i] THEN i - 1
        ELSE go(i + 1)
  IN go(1)

\* i => i.kind === 'item' && i.item.id === selectedItem.id
isItemWithId(rows, id) ==
  [i \in 1..Len(rows) |-> rows[i].kind = "item" /\ rows[i].item.id = id]

\* i => i.kind === 'item'
isItem(rows) == [i \in 1..Len(rows) |-> rows[i].kind = "item"]

\* (props.filterText || '').toLowerCase()
lowerFilter(p) ==
  toLowerCase(IF p.filterText = Undefined THEN <<>> ELSE p.filterText)

\* createStateUpdate with the fallback `findIndex(i => true)`: the first row,
\* whatever its kind
createStateUpdate_FirstRow(p) ==
  LET filter == lowerFilter(p)
      flattenedRows == flattenGroups(p.groups, filter, p.renderGroupHeader)
      bySelectedItem ==
        IF p.selectedItem # NULL
        THEN findIndex(isItemWithId(flattenedRows, p.selectedItem.id))
        ELSE -1
      selectedRow ==
        IF bySelectedItem < 0 /\ Len(filter) # 0
        THEN findIndex([i \in 1..Len(flattenedRows) |-> TRUE])
        ELSE bySelectedItem
  IN [rows |-> flattenedRows, selectedRow |-> selectedRow]

\* createStateUpdate without the fallback to the first visible item
createStateUpdate_NoFallback(p) ==
  LET filter == lowerFilter(p)
      flattenedRows == flattenGroups(p.groups, filter, p.renderGroupHeader)
      bySelectedItem ==
        IF p.selectedItem # NULL
        THEN findIndex(isItemWithId(flattenedRows, p.selectedItem.id))
        ELSE -1
  IN [rows |-> flattenedRows, selectedRow |-> bySelectedItem]

\* createStateUpdate with `if (selectedRow < 0)`: the fallback under any
\* filter text
createStateUpdate_AlwaysFallback(p) ==
  LET filter == lowerFilter(p)
      flattenedRows == flattenGroups(p.groups, filter, p.renderGroupHeader)
      bySelectedItem ==
        IF p.selectedItem # NULL
        THEN findIndex(isItemWithId(flattenedRows, p.selectedItem.id))
        ELSE -1
      selectedRow ==
        IF bySelectedItem < 0
        THEN findIndex(isItem(flattenedRows))
        ELSE bySelectedItem
  IN [rows |-> flattenedRows, selectedRow |-> selectedRow]

createStateUpdate(p) ==
  LET filter == lowerFilter(p)
      flattenedRows == flattenGroups(p.groups, filter, p.renderGroupHeader)
      bySelectedItem ==
        IF p.selectedItem # NULL
        THEN findIndex(isItemWithId(flattenedRows, p.selectedItem.id))
        ELSE -1
      selectedRow ==
        IF bySelectedItem < 0 /\ Len(filter) # 0
        THEN findIndex(isItem(flattenedRows))
        ELSE bySelectedItem
  IN [rows |-> flattenedRows, selectedRow |-> selectedRow]

getItemFromRowIndex(items, index) ==
  IF index >= 0 /\ index < Len(items)
  THEN IF items[index + 1].kind = "item" THEN items[index + 1].item ELSE NULL
  ELSE NULL

getItemIdFromRowIndex(items, index) ==
  LET item == getItemFromRowIndex(items, index)
  IN IF item # NULL THEN item.id ELSE NoId

(***************************************************************************)
(* The list control.  this.list is set by the ref callback of the <List>   *)
(* that renderContent mounts; nextSelectableRow belongs to ../lib/list.    *)
(***************************************************************************)
\* this.list !== null after a render with state s and props p
listMounted(s, p) == ~(Len(s.rows) = 0 /\ p.renderNoItems)

\* canSelectRow without the test of props.disabled
canSelectRow_IgnoreDisabled(s, p, index) == s.rows[index + 1].kind = "item"

canSelectRow(s, p, index) ==
  IF p.disabled THEN FALSE ELSE s.rows[index + 1].kind = "item"

\* the first selectable row met going in the direction from just past row,
\* wrapping around the ends; NoRow when there is none
nextSelectableRow(s, p, direction, row) ==
  LET rowCount == Len(s.rows)
      delta == IF direction = "up" THEN -1 ELSE 1
      wrap(r) == IF r >= rowCount THEN 0 ELSE IF r < 0 THEN rowCount - 1 ELSE r
      RECURSIVE go(_, _)
      go(n, r) ==
        IF n >= rowCount THEN NoRow
        ELSE LET newRow == wrap(r + delta)
             IN IF canSelectRow(s, p, newRow) THEN newRow ELSE go(n + 1, newRow)
  IN go(0, row)

\* the list changes its selection only to a row of its rowCount rows for
\* which the canSelectRow prop answers true
listCanSelect(s, p, index) ==
  index \in 0..(Len(s.rows) - 1) /\ canSelectRow(s, p, index)

(***************************************************************************)
(* Callback invocations, in the order they are made.                       *)
(***************************************************************************)
SelectionChangedCall(item, source) ==
  [cb |-> "onSelectionChanged", item |-> item, source |-> source]

ItemClickCall(item) == [cb |-> "onItemClick", item |-> item]

FilterKeyDownCall == [cb |-> "onFilterKeyDown"]

\* filterSource without `|| ''`
filterSource_NoDefault(p) == [kind |-> "filter", filterText |-> p.filterText]

\* { kind: 'filter', filterText: this.props.filterText || '' }
filterSource(p) ==
  [kind |-> "filter",
   filterText |-> IF p.filterText = Undefined THEN <<>> ELSE p.filterText]

\* componentDidUpdate without the comparison with props.selectedItem
componentDidUpdate_NoPropCheck(prevState, s, p, onSelectionChanged) ==
  IF onSelectionChanged
  THEN LET oldSelectedItemId == getItemIdFromRowIndex(prevState.rows, prevState.selectedRow)
           newSelectedItemId == getItemIdFromRowIndex(s.rows, s.selectedRow)
       IN IF oldSelectedItemId # newSelectedItemId
          THEN << [cb |-> "onSelectionChanged",
                   item |-> getItemFromRowIndex(s.rows, s.selectedRow),
                   source |-> [kind |-> "filter",
                               filterText |-> IF p.filterText = Undefined
                                              THEN <<>> ELSE p.filterText]] >>
          ELSE <<>>
  ELSE <<>>

\* componentDidUpdate: the calls it makes
componentDidUpdate(prevState, s, p, onSelectionChanged) ==
  IF onSelectionChanged
  THEN LET oldSelectedItemId == getItemIdFromRowIndex(prevState.rows, prevState.selectedRow)
           newSelectedItemId == getItemIdFromRowIndex(s.rows, s.selectedRow)
           propSelectionId == IF p.selectedItem # NULL THEN p.selectedItem.id ELSE NoId
       IN IF oldSelectedItemId # newSelectedItemId /\ propSelectionId # newSelectedItemId
          THEN << SelectionChangedCall(getItemFromRowIndex(s.rows, s.selectedRow),
                                       filterSource(p)) >>
          ELSE <<>>
  ELSE <<>>

\* onRowClick: the calls it makes
onRowClick(s, index, onItemClick) ==
  IF onItemClick /\ s.rows[index + 1].kind = "item"
  THEN <<ItemClickCall(s.rows[index + 1].item)>>
  ELSE <<>>

\* The event the last handler ran for and the optional callbacks it found;
\* whether the handler ran with the props it had before, and whether it
\* changed the id of the selected item and the focus.
NoEvent ==
  [op |-> "constructor", key |-> "", row |-> -1,
   onSelectionChanged |-> FALSE, onItemClick |-> FALSE,
   onFilterKeyDown |-> FALSE, cancels |-> FALSE,
   sameProps |-> FALSE,
   selectionMoved |-> FALSE, focusMoved |-> FALSE]

\* no handler is running: control is back in the event loop
Idle == event.op = "idle"

Event(op, key, row) ==
  [NoEvent EXCEPT
     !.op = op, !.key = key, !.row = row,
     !.sameProps = props' = props,
     !.selectionMoved = getItemIdFromRowIndex(state.rows, state.selectedRow)
                          # getItemIdFromRowIndex(state'.rows, state'.selectedRow),
     !.focusMoved = focus' # focus]

\* the indices of the rows the list shows
RowIndices == 0..(Len(state.rows) - 1)

(***************************************************************************)
(* constructor                                                             *)
(***************************************************************************)
Init ==
  /\ props \in Props
  /\ state = createStateUpdate(props)
  /\ focus = "FilterInput"
  /\ event = NoEvent
  /\ calls = <<>>
  /\ defaultPrevented = FALSE

(***************************************************************************)
(* componentWillReceiveProps, followed by componentDidUpdate.              *)
(***************************************************************************)
\* componentWillReceiveProps keeping the rows it had
ComponentWillReceiveProps_StaleRows(nextProps, onSelectionChanged) ==
  LET s == [createStateUpdate(nextProps) EXCEPT !.rows = state.rows]
  IN /\ Idle
     /\ props' = nextProps
     /\ state' = s
     /\ calls' = componentDidUpdate(state, s, nextProps, onSelectionChanged)
     /\ defaultPrevented' = FALSE
     /\ UNCHANGED focus
     /\ event' = [Event("componentWillReceiveProps", "", -1)
                    EXCEPT !.onSelectionChanged = onSelectionChanged]

\* componentWillReceiveProps with setState({ rows }): selectedRow is kept
ComponentWillReceiveProps_KeepSelectedRow(nextProps, onSelectionChanged) ==
  LET s == [createStateUpdate(nextProps) EXCEPT !.selectedRow = state.selectedRow]
  IN /\ Idle
     /\ props' = nextProps
     /\ state' = s
     /\ calls' = componentDidUpdate(state, s, nextProps, onSelectionChanged)
     /\ defaultPrevented' = FALSE
     /\ UNCHANGED focus
     /\ event' = [Event("componentWillReceiveProps", "", -1)
                    EXCEPT !.onSelectionChanged = onSelectionChanged]

ComponentWillReceiveProps(nextProps, onSelectionChanged) ==
  LET s == createStateUpdate(nextProps)
  IN /\ Idle
     /\ props' = nextProps
     /\ state' = s
     /\ calls' = componentDidUpdate(state, s, nextProps, onSelectionChanged)
     /\ defaultPrevented' = FALSE
     /\ UNCHANGED focus
     /\ event' = [Event("componentWillReceiveProps", "", -1)
                    EXCEPT !.onSelectionChanged = onSelectionChanged]

(***************************************************************************)
(* onSelectionChanged: the list reports a selection made with the mouse or *)
(* with its own arrow keys.  The caller's callback may pass the item back  *)
(* as the selectedItem prop (feedBack); React batches that re-render with  *)
(* the setState of the handler, and componentDidUpdate runs once.          *)
(***************************************************************************)
OnSelectionChanged(index, source, onSelectionChanged, feedBack) ==
  /\ Idle
  /\ listMounted(state, props)
  /\ listCanSelect(state, props, index)
  /\ LET row == state.rows[index + 1]
         notified == onSelectionChanged /\ row.kind = "item"
         nextProps == IF feedBack THEN [props EXCEPT !.selectedItem = row.item]
                      ELSE props
         s == IF feedBack THEN createStateUpdate(nextProps)
              ELSE [state EXCEPT !.selectedRow = index]
     IN /\ feedBack => notified
        /\ props' = nextProps
        /\ state' = s
        /\ calls' = (IF notified THEN <<SelectionChangedCall(row.item, source)>>
                     ELSE <<>>)
                    \o componentDidUpdate(state, s, nextProps, onSelectionChanged)
        /\ defaultPrevented' = FALSE
        /\ UNCHANGED focus
        /\ event' = [Event("onSelectionChanged", "", index)
                       EXCEPT !.onSelectionChanged = onSelectionChanged]

(***************************************************************************)
(* onRowClick, raised by the list                                          *)
(***************************************************************************)
OnRowClick(index, onItemClick) ==
  /\ Idle
  /\ listMounted(state, props)
  /\ index \in 0..(Len(state.rows) - 1)
  /\ calls' = onRowClick(state, index, onItemClick)
  /\ defaultPrevented' = FALSE
  /\ UNCHANGED <<props, state, focus>>
  /\ event' = [Event("onRowClick", "", index)
                 EXCEPT !.onItemClick = onItemClick]

(***************************************************************************)
(* onRowKeyDown, raised by the list for a key-down on one of its rows      *)
(***************************************************************************)
\* focusInput without the ArrowDown branch
focusInput_UpOnly(s, p, row, key) ==
  key = "ArrowUp" /\ row = nextSelectableRow(s, p, "down", -1)

\* focusInput for ArrowUp and ArrowDown on any row
focusInput_AnyRow(s, p, row, key) == key = "ArrowUp" \/ key = "ArrowDown"

\* whether onRowKeyDown decides to focus the filter input
focusInput(s, p, row, key) ==
  LET firstSelectableRow == nextSelectableRow(s, p, "down", -1)
      lastSelectableRow == nextSelectableRow(s, p, "up", 0)
  IN \/ key = "ArrowUp" /\ row = firstSelectableRow
     \/ key = "ArrowDown" /\ row = lastSelectableRow

OnRowKeyDown(row, key) ==
  /\ Idle
  /\ listMounted(state, props)
  /\ row \in 0..(Len(state.rows) - 1)
  /\ IF focusInput(state, props, row, key)
     THEN /\ defaultPrevented' = TRUE
          /\ focus' = "FilterInput"
     ELSE /\ defaultPrevented' = FALSE
          /\ UNCHANGED focus
  /\ calls' = <<>>
  /\ UNCHANGED <<props, state>>
  /\ event' = Event("onRowKeyDown", key, row)

(***************************************************************************)
(* onKeyDown of the filter input.  The handler's outcome: the state, the   *)
(* focus, the calls made and whether the event's default is prevented.     *)
(***************************************************************************)
Outcome(s, f, c, prevented) ==
  [state |-> s, focus |-> f, calls |-> c, defaultPrevented |-> prevented]

\* onArrowKey without the list.focus() callback of setState
onArrowKey_NoFocus(s, p, f, c, direction, from, onSelectionChanged) ==
  LET selectedRow == IF Len(s.rows) > 0
                     THEN nextSelectableRow(s, p, direction, from)
                     ELSE NoRow
      t == [s EXCEPT !.selectedRow = selectedRow]
  IN IF selectedRow # NoRow
     THEN [state |-> t, focus |-> f,
           calls |-> c \o componentDidUpdate(s, t, p, onSelectionChanged),
           defaultPrevented |-> TRUE]
     ELSE [state |-> s, focus |-> f, calls |-> c, defaultPrevented |-> TRUE]

\* ArrowDown ("down", -1) and ArrowUp ("up", 0):
\* setState({ selectedRow }, () => list.focus()), then preventDefault
onArrowKey(s, p, f, c, direction, from, onSelectionChanged) ==
  LET selectedRow == IF Len(s.rows) > 0
                     THEN nextSelectableRow(s, p, direction, from)
                     ELSE NoRow
      t == [s EXCEPT !.selectedRow = selectedRow]
  IN IF selectedRow # NoRow
     THEN Outcome(t, "ListBody",
                  c \o componentDidUpdate(s, t, p, onSelectionChanged), TRUE)
     ELSE Outcome(s, f, c, TRUE)

onEnterKey(s, p, f, c, onItemClick) ==
  IF Len(s.rows) = 0
  THEN Outcome(s, f, c, TRUE)
  ELSE IF p.filterText # Undefined /\ ~hasNonWhitespace(p.filterText)
  THEN Outcome(s, f, c, TRUE)
  ELSE LET row == nextSelectableRow(s, p, "down", -1)
       IN \* if (row): null and 0 are both falsy
          IF row # NoRow /\ row # 0
          THEN Outcome(s, f, c \o onRowClick(s, row, onItemClick), FALSE)
          ELSE Outcome(s, f, c, FALSE)

onKeyDown(s, p, f, key, onFilterKeyDown, cancels, onSelectionChanged, onItemClick) ==
  IF ~listMounted(s, p)
  THEN Outcome(s, f, <<>>, FALSE)
  ELSE LET c == IF onFilterKeyDown THEN <<FilterKeyDownCall>> ELSE <<>>
       IN IF onFilterKeyDown /\ cancels
          THEN Outcome(s, f, c, TRUE)
          ELSE CASE key = "ArrowDown" -> onArrowKey(s, p, f, c, "down", -1, onSelectionChanged)
                 [] key = "ArrowUp" -> onArrowKey(s, p, f, c, "up", 0, onSelectionChanged)
                 [] key = "Enter" -> onEnterKey(s, p, f, c, onItemClick)
                 [] OTHER -> Outcome(s, f, c, FALSE)

OnKeyDown(key, onFilterKeyDown, cancels, onSelectionChanged, onItemClick) ==
  LET o == onKeyDown(state, props, focus, key, onFilterKeyDown, cancels,
                     onSelectionChanged, onItemClick)
  IN /\ Idle
     /\ cancels => onFilterKeyDown
     /\ state' = o.state
     /\ focus' = o.focus
     /\ calls' = o.calls
     /\ defaultPrevented' = o.defaultPrevented
     /\ UNCHANGED props
     /\ event' = [Event("onKeyDown", key, -1)
                    EXCEPT !.onFilterKeyDown = onFilterKeyDown,
                           !.cancels = cancels,
                           !.onSelectionChanged = onSelectionChanged,
                           !.onItemClick = onItemClick]

(***************************************************************************)
(* The handlers run one at a time, each to completion, from the event      *)
(* loop; what is recorded of a handler is dropped when it has returned.    *)
(***************************************************************************)
ReturnToEventLoop ==
  /\ ~Idle
  /\ event' = [NoEvent EXCEPT !.op = "idle"]
  /\ calls' = <<>>
  /\ defaultPrevented' = FALSE
  /\ UNCHANGED <<props, state, focus>>

\* The props a parent passes on a re-render: new values of groups,
\* selectedItem and filterText, or a change of one of the other props.
NextProps(p) ==
  { [p EXCEPT !.groups = g, !.selectedItem = i, !.filterText = f] :
      g \in GroupLists, i \in SelectedItems, f \in FilterTexts }
    \cup { [p EXCEPT !.renderGroupHeader = ~p.renderGroupHeader],
           [p EXCEPT !.renderNoItems = ~p.renderNoItems],
           [p EXCEPT !.disabled = ~p.disabled] }

\* the callbacks a key-down handler can reach for the key
ReadFor(key, keys) == IF key \in keys THEN BOOLEAN ELSE {FALSE}

Next ==
  \/ \E nextProps \in NextProps(props), onSelectionChanged \in BOOLEAN :
       ComponentWillReceiveProps(nextProps, onSelectionChanged)
  \/ \E index \in RowIndices, source \in ListSelectionSources,
        onSelectionChanged \in BOOLEAN, feedBack \in BOOLEAN :
       OnSelectionChanged(index, source, onSelectionChanged, feedBack)
  \/ \E index \in RowIndices, onItemClick \in BOOLEAN : OnRowClick(index, onItemClick)
  \/ \E row \in RowIndices, key \in RowKeys : OnRowKeyDown(row, key)
  \/ \E key \in Keys, onFilterKeyDown \in BOOLEAN, cancels \in BOOLEAN :
       \E onSelectionChanged \in ReadFor(key, {"ArrowDown", "ArrowUp"}),
          onItemClick \in ReadFor(key, {"Enter"}) :
       OnKeyDown(key, onFilterKeyDown, cancels, onSelectionChanged, onItemClick)
  \/ ReturnToEventLoop

Spec == Init /\ [][Next]_vars

(***************************************************************************)
(* Vocabulary of the properties.                                           *)
(***************************************************************************)
ItemRowIndices(s) == { i \in 0..(Len(s.rows) - 1) : s.rows[i + 1].kind = "item" }

\* a row is selectable iff the widget is not disabled and the row is an ItemRow
SelectableRows(s, p) == IF p.disabled THEN {} ELSE ItemRowIndices(s)

Least(S) == CHOOSE i \in S : \A j \in S : i <= j

Greatest(S) == CHOOSE i \in S : \A j \in S : i >= j

SelectedItemOf(s) ==
  IF s.selectedRow \in ItemRowIndices(s) THEN s.rows[s.selectedRow + 1].item ELSE NULL

SelectedIdOf(s) ==
  IF s.selectedRow \in ItemRowIndices(s) THEN s.rows[s.selectedRow + 1].item.id ELSE NoId

PropIdOf(p) == IF p.selectedItem = NULL THEN NoId ELSE p.selectedItem.id

\* the rows whose item has the id of the selectedItem prop
RowsOfSelectedItem(s, p) ==
  { i \in ItemRowIndices(s) :
      p.selectedItem # NULL /\ s.rows[i + 1].item.id = p.selectedItem.id }

FilterIsEmpty(p) == p.filterText = Undefined \/ p.filterText = <<>>

WhitespaceOnly(text) ==
  /\ text # Undefined
  /\ Len(text) > 0
  /\ \A i \in 1..Len(text) : text[i] = " "

SelectionChangedCalls(c) == SelectSeq(c, LAMBDA x : x.cb = "onSelectionChanged")

\* the notifications of the reconciler (componentDidUpdate)
ReconcilerCalls(c) ==
  SelectSeq(c, LAMBDA x : x.cb = "onSelectionChanged" /\ x.source.kind = "filter")

ItemClickCalls(c) == SelectSeq(c, LAMBDA x : x.cb = "onItemClick")

\* the state was just computed from the props
Recomputed == event.op \in {"constructor", "componentWillReceiveProps"}

\* a key-down in the filter input that the caller's handler did not cancel
FilterKeyDown(e, key) ==
  e.op = "onKeyDown" /\ e.key = key /\ ~(e.onFilterKeyDown /\ e.cancels)

(***************************************************************************)
(* C1: in every reachable state selectedRow is -1 or the index of a row of *)
(* kind item; it never points at a group header row.                       *)
(***************************************************************************)
C1_SelectedRowIsItemRow ==
  state.selectedRow = -1 \/ state.selectedRow \in ItemRowIndices(state)

C1_Witness ==
  /\ event.op = "onKeyDown"
  /\ event.key = "ArrowDown"
  /\ state.selectedRow > 0
  /\ state.rows[1].kind = "group"

(***************************************************************************)
(* C2: whenever the id of the item at the new selectedRow equals the id of *)
(* the selectedItem prop (both null included), the reconciler has emitted  *)
(* no selection-changed notification.                                      *)
(***************************************************************************)
C2_ReconciliationSuppressed ==
  SelectedIdOf(state) = PropIdOf(props) => ReconcilerCalls(calls) = <<>>

\* a prop update moved the selection to the item the caller already names
C2_Witness ==
  /\ event.op = "componentWillReceiveProps"
  /\ event.onSelectionChanged
  /\ event.selectionMoved
  /\ SelectedIdOf(state) # NoId
  /\ SelectedIdOf(state) = PropIdOf(props)
  /\ calls = <<>>

C4_NotInvokedOnPropsChange ==
  event.op = "componentWillReceiveProps" => SelectionChangedCalls(calls) = <<>>

(***************************************************************************)
(* C5: Enter in the filter input with the empty filter text "", not        *)
(* cancelled by the caller's handler and with a row present, invokes the   *)
(* item-click callback with the item of the first selectable row, whatever *)
(* the row layout.                                                         *)
(***************************************************************************)
C5_EnterOnEmptyFilterClicks ==
  ( /\ FilterKeyDown(event, "Enter")
    /\ event.onItemClick
    /\ props.filterText = <<>>
    /\ SelectableRows(state, props) # {} )
  => ItemClickCalls(calls) =
       << [cb |-> "onItemClick",
           item |-> state.rows[Least(SelectableRows(state, props)) + 1].item] >>

(***************************************************************************)
(* C6: Enter in the filter input on a non-empty filter text of whitespace  *)
(* only invokes no item-click, leaves selectedRow and the focus unchanged  *)
(* and suppresses the event's default.                                     *)
(***************************************************************************)
C6_EnterOnWhitespaceIsNoOp ==
  [][ ( /\ event'.op = "onKeyDown"
        /\ event'.key = "Enter"
        /\ WhitespaceOnly(props.filterText) )
      => ( /\ ItemClickCalls(calls') = <<>>
           /\ state'.selectedRow = state.selectedRow
           /\ focus' = focus
           /\ defaultPrevented' )
    ]_vars

(***************************************************************************)
(* C7: when the state is computed from the props, if some item row has the *)
(* id of selectedItem then selectedRow is the index of the first such row; *)
(* otherwise, if the filter text is non-empty, selectedRow is the index of *)
(* the first item row, or -1 when there is none.                           *)
(***************************************************************************)
C7_SelectionFallback ==
  Recomputed =>
    IF RowsOfSelectedItem(state, props) # {}
    THEN state.selectedRow = Least(RowsOfSelectedItem(state, props))
    ELSE ~FilterIsEmpty(props) =>
           IF ItemRowIndices(state) # {}
           THEN state.selectedRow = Least(ItemRowIndices(state))
           ELSE state.selectedRow = -1

\* the selected item is filtered out and another row is selected instead
C7_Witness ==
  /\ event.op = "componentWillReceiveProps"
  /\ props.selectedItem # NULL
  /\ RowsOfSelectedItem(state, props) = {}
  /\ ~FilterIsEmpty(props)
  /\ state.selectedRow > 0

(***************************************************************************)
(* C8: when the state is computed from the props with an empty or absent   *)
(* filter text and selectedItem is null or its id matches no item row,     *)
(* selectedRow is -1 however many rows there are.                          *)
(***************************************************************************)
C8_NoSelectionOnEmptyFilterMiss ==
  (Recomputed /\ FilterIsEmpty(props) /\ RowsOfSelectedItem(state, props) = {})
    => state.selectedRow = -1

C8_Witness ==
  /\ event.op = "componentWillReceiveProps"
  /\ props.filterText = <<>>
  /\ props.selectedItem # NULL
  /\ RowsOfSelectedItem(state, props) = {}
  /\ Len(state.rows) > 1
  /\ state.selectedRow = -1

(***************************************************************************)
(* C9: while the focus is in the list, ArrowUp on the topmost selectable   *)
(* row, or ArrowDown on the bottommost selectable row, moves the focus to  *)
(* the filter input, suppresses the event's default and leaves selectedRow *)
(* and rows unchanged.                                                     *)
(***************************************************************************)
AtBoundary(e, s, p) ==
  /\ e.op = "onRowKeyDown"
  /\ SelectableRows(s, p) # {}
  /\ \/ e.key = "ArrowUp" /\ e.row = Least(SelectableRows(s, p))
     \/ e.key = "ArrowDown" /\ e.row = Greatest(SelectableRows(s, p))

C9_BoundaryFocusTransfer ==
  [][ (focus = "ListBody" /\ AtBoundary(event', state, props))
      => (focus' = "FilterInput" /\ defaultPrevented' /\ state' = state)
    ]_vars

\* ArrowDown on the last of several rows took the focus out of the list
C9_Witness ==
  /\ AtBoundary(event, state, props)
  /\ event.key = "ArrowDown"
  /\ event.row > Least(SelectableRows(state, props))
  /\ event.focusMoved
  /\ focus = "FilterInput"
  /\ defaultPrevented

(***************************************************************************)
(* C10: ArrowDown in the filter input, not cancelled by the caller's       *)
(* handler, with a row present and the widget not disabled, sets           *)
(* selectedRow to the first selectable row and moves the focus to the      *)
(* list; ArrowUp does the same with the last selectable row.               *)
(***************************************************************************)
EntersList(key, s, p, t, f) ==
  /\ SelectableRows(s, p) # {}
  /\ t.selectedRow = IF key = "ArrowDown" THEN Least(SelectableRows(s, p))
                     ELSE Greatest(SelectableRows(s, p))
  /\ t.rows = s.rows
  /\ f = "ListBody"

C10_EnterListWhenEnabled ==
  [][ \A key \in {"ArrowDown", "ArrowUp"} :
        (FilterKeyDown(event', key) /\ Len(state.rows) > 0 /\ ~props.disabled)
        => EntersList(key, state, props, state', focus')
    ]_vars

\* C10 as stated: with a row present, whether or not the widget is disabled
C10_EnterListWheneverRows ==
  [][ \A key \in {"ArrowDown", "ArrowUp"} :
        (FilterKeyDown(event', key) /\ Len(state.rows) > 0)
        => EntersList(key, state, props, state', focus')
    ]_vars

\* ArrowUp moved the selection to the last of several rows and the focus
\* into the list
C10_Witness ==
  /\ FilterKeyDown(event, "ArrowUp")
  /\ event.focusMoved
  /\ event.selectionMoved
  /\ focus = "ListBody"
  /\ state.selectedRow = Greatest(SelectableRows(state, props))
  /\ state.selectedRow > Least(SelectableRows(state, props))

(***************************************************************************)
(* C11: for every key-down in the filter input, in every reachable state   *)
(* (with no rows displayed too), the caller's filter-key-down handler,     *)
(* when present, is invoked before anything the widget does; if it cancels *)
(* the default, selectedRow, rows and the focus are unchanged and no       *)
(* item-click is invoked.                                                  *)
(***************************************************************************)
C11_CallerHandlerFirst ==
  [][ (event'.op = "onKeyDown" /\ event'.onFilterKeyDown)
      => ( /\ calls' # <<>>
           /\ calls'[1] = FilterKeyDownCall
           /\ event'.cancels =>
                ( /\ state' = state
                  /\ focus' = focus
                  /\ ItemClickCalls(calls') = <<>> ) )
    ]_vars

(***************************************************************************)
(* The rows expected of the props, by position.                            *)
(***************************************************************************)
\* the items of the group whose lower-cased text contains the filter
MatchingItems(group, p) ==
  SelectSeq(group.items, LAMBDA i : includes(toLowerCase(i.text), lowerFilter(p)))

HeaderRows(p) == IF p.renderGroupHeader THEN 1 ELSE 0

\* the number of rows a group accounts for
RowsOfGroup(group, p) ==
  IF MatchingItems(group, p) = <<>> THEN 0
  ELSE HeaderRows(p) + Len(MatchingItems(group, p))

\* the number of rows the groups before the g-th account for
RECURSIVE Offset(_, _)
Offset(p, g) ==
  IF g <= 1 THEN 0 ELSE Offset(p, g - 1) + RowsOfGroup(p.groups[g - 1], p)

GroupIndices(p) == 1..Len(p.groups)

HeaderRow(group) == [kind |-> "group", identifier |-> group.identifier]

(***************************************************************************)
(* C12: a group none of whose items match the filter contributes no row to *)
(* the flattened rows: no item row and no header row, also when a          *)
(* group-header renderer is supplied.                                      *)
(***************************************************************************)
C12_EmptyMatchGroupsVanish ==
  /\ Len(state.rows) = Offset(props, Len(props.groups) + 1)
  /\ \A g \in GroupIndices(props) :
       MatchingItems(props.groups[g], props) = <<>>
       => /\ Offset(props, g + 1) = Offset(props, g)
          /\ \A i \in 1..Len(state.rows) : state.rows[i] # HeaderRow(props.groups[g])

\* a group with items, none matching, beside a group that has rows
C12_Witness ==
  /\ event.op = "componentWillReceiveProps"
  /\ props.renderGroupHeader
  /\ Len(state.rows) > 0
  /\ \E g \in GroupIndices(props) :
       /\ props.groups[g].items # <<>>
       /\ MatchingItems(props.groups[g], props) = <<>>

(***************************************************************************)
(* C13: the item rows are exactly the matching items, in their order in    *)
(* the input, contiguous per group in the order of the groups; with a      *)
(* group-header renderer the header row of each contributing group comes   *)
(* immediately before the group's first item row.                          *)
(***************************************************************************)
C13_FlatteningPreservesOrder ==
  /\ Len(state.rows) = Offset(props, Len(props.groups) + 1)
  /\ \A g \in GroupIndices(props) :
       LET group == props.groups[g]
           items == MatchingItems(group, props)
           first == Offset(props, g) + HeaderRows(props)
       IN items # <<>> =>
            /\ props.renderGroupHeader => state.rows[first] = HeaderRow(group)
            /\ \A k \in 1..Len(items) :
                 state.rows[first + k] = [kind |-> "item", item |-> items[k]]

\* two groups with headers, one of them with two items
C13_Witness ==
  /\ event.op = "componentWillReceiveProps"
  /\ props.renderGroupHeader
  /\ Len(state.rows) >= 5
  /\ state.rows[Len(state.rows)].item # state.rows[Len(state.rows) - 1].item

(***************************************************************************)
(* C14: the state right after a prop update is the result of flattening    *)
(* the new props (groups, filterText, selectedItem, group-header renderer) *)
(* whatever the state was before, a selectedRow left by arrow-key          *)
(* navigation included; recomputing from the props the state was computed  *)
(* from yields the same rows and selectedRow.                              *)
(***************************************************************************)
C14_RecomputeDependsOnlyOnProps ==
  [][ event'.op = "componentWillReceiveProps"
      => /\ state' = createStateUpdate(props')
         /\ (state = createStateUpdate(props) /\ props' = props) => state' = state
    ]_vars

\* an update with the same props replaced the selection navigation had left
C14_Witness ==
  /\ event.op = "componentWillReceiveProps"
  /\ event.sameProps
  /\ event.selectionMoved
  /\ state = createStateUpdate(props)

(***************************************************************************)
(* C15: a selection change made by the list (mouse, or the list's own      *)
(* arrow keys) to an item row whose item differs from the current          *)
(* selection is reported to the caller exactly once, with the list's       *)
(* source; no notification with source filter comes with it, whether or    *)
(* not the caller passes the item back as the selectedItem prop.           *)
(***************************************************************************)
C15_ListSelectionReportedOnce ==
  ( /\ event.op = "onSelectionChanged"
    /\ event.onSelectionChanged
    /\ event.selectionMoved )
  => /\ SelectionChangedCalls(calls) \in
          { <<SelectionChangedCall(state.rows[event.row + 1].item, source)>> :
              source \in ListSelectionSources }
     /\ ReconcilerCalls(calls) = <<>>

(***************************************************************************)
(* C16: Enter in the filter input while rows is empty, not cancelled by    *)
(* the caller's handler, suppresses the event's default and does nothing   *)
(* else, in every reachable state: also when a no-items slot is rendered   *)
(* in place of the list.                                                   *)
(***************************************************************************)
C16_EnterWithNoRows ==
  [][ (FilterKeyDown(event', "Enter") /\ state.rows = <<>>)
      => ( /\ defaultPrevented'
           /\ state' = state
           /\ focus' = focus
           /\ ItemClickCalls(calls') = <<>>
           /\ SelectionChangedCalls(calls') = <<>> )
    ]_vars

(***************************************************************************)
(* C17: the focus is held by the filter input or by the list, initially by *)
(* the filter input.  It moves from the filter input to the list only on   *)
(* ArrowDown or ArrowUp in the filter input with rows present, and from    *)
(* the list to the filter input only on ArrowUp at the topmost or          *)
(* ArrowDown at the bottommost selectable row; no other event the widget   *)
(* handles changes it.                                                     *)
(***************************************************************************)
C17_FocusStateMachine ==
  /\ focus = "FilterInput"
  /\ [][ /\ focus' \in {"FilterInput", "ListBody"}
         /\ (focus = "FilterInput" /\ focus' = "ListBody")
              => /\ event'.op = "onKeyDown"
                 /\ event'.key \in {"ArrowDown", "ArrowUp"}
                 /\ state.rows # <<>>
         /\ (focus = "ListBody" /\ focus' = "FilterInput")
              => AtBoundary(event', state, props)
         /\ event'.op \notin {"onKeyDown", "onRowKeyDown"} => focus' = focus
         /\ (event'.op = "onKeyDown" /\ event'.key \notin {"ArrowDown", "ArrowUp"})
              => focus' = focus
       ]_vars

\* the focus went to the list and ArrowUp on the top row of several brought
\* it back
C17_Witness ==
  /\ AtBoundary(event, state, props)
  /\ event.key = "ArrowUp"
  /\ event.focusMoved
  /\ focus = "FilterInput"
  /\ Greatest(SelectableRows(state, props)) > event.row

(***************************************************************************)
(* C18: in every reachable state rows is the flattening of the current     *)
(* groups, filterText and group-header renderer props; the navigation      *)
(* events (selection change by the list, row click, row key-down, key-down *)
(* in the filter input) leave rows unchanged and change of the state only  *)
(* selectedRow.                                                            *)
(***************************************************************************)
Navigation == {"onSelectionChanged", "onRowClick", "onRowKeyDown", "onKeyDown"}

C18_RowsFollowProps ==
  /\ [](state.rows = flattenGroups(props.groups, lowerFilter(props),
                                   props.renderGroupHeader))
  /\ [][ event'.op \in Navigation
         => /\ state'.rows = state.rows
            /\ props'.groups = props.groups
            /\ props'.filterText = props.filterText
            /\ props'.renderGroupHeader = props.renderGroupHeader
       ]_vars

\* arrow-key navigation moved selectedRow away from the row the props name
\* and the rows are those of the props
C18_Witness ==
  /\ FilterKeyDown(event, "ArrowUp")
  /\ event.selectionMoved
  /\ state.selectedRow # createStateUpdate(props).selectedRow
  /\ state.rows = createStateUpdate(props).rows
  /\ ~FilterIsEmpty(props)

(***************************************************************************)
(* C19: a row is selectable iff the widget is not disabled and the row is  *)
(* an item row; so while the widget is disabled a key-down in the filter   *)
(* input (ArrowDown, ArrowUp or Enter) changes neither selectedRow nor the *)
(* focus and invokes no item-click, whatever rows are present.             *)
(***************************************************************************)
C19_DisabledIgnoresKeys ==
  /\ [](\A i \in RowIndices :
          canSelectRow(state, props, i) <=> i \in SelectableRows(state, props))
  /\ [][ (event'.op = "onKeyDown" /\ props.disabled)
         => ( /\ state' = state
              /\ focus' = focus
              /\ ItemClickCalls(calls') = <<>> )
       ]_vars

\* Enter, not cancelled and with an item-click callback, on a disabled
\* widget whose first item row is below a header
C19_Witness ==
  /\ FilterKeyDown(event, "Enter")
  /\ event.onItemClick
  /\ props.disabled
  /\ ~FilterIsEmpty(props)
  /\ ItemRowIndices(state) # {}
  /\ Least(ItemRowIndices(state)) > 0
  /\ calls = <<>>

(***************************************************************************)
(* C20: in every reachable state every group header row is immediately     *)
(* followed by an item row of an item of that group (the last row is never *)
(* a header, and rows that are not empty hold an item row), and there is   *)
(* no group header row when no group-header renderer is supplied.          *)
(***************************************************************************)
\* the item is one of the items of a group of the props with the identifier
ItemOfGroup(p, identifier, item) ==
  \E g \in GroupIndices(p) :
    /\ p.groups[g].identifier = identifier
    /\ \E k \in 1..Len(p.groups[g].items) : p.groups[g].items[k] = item

C20_WellFormedRows ==
  /\ \A i \in 1..Len(state.rows) :
       state.rows[i].kind = "group" =>
         /\ props.renderGroupHeader
         /\ i < Len(state.rows)
         /\ state.rows[i + 1].kind = "item"
         /\ ItemOfGroup(props, state.rows[i].identifier, state.rows[i + 1].item)
  /\ state.rows # <<>> => ItemRowIndices(state) # {}

\* after navigation in the list, rows with the headers of two groups
C20_Witness ==
  /\ event.op = "onSelectionChanged"
  /\ state.rows # <<>>
  /\ state.rows[1].kind = "group"
  /\ \E i \in 2..Len(state.rows) : state.rows[i].kind = "group"

====
